---- MODULE Spec2Model ----
(***************************************************************************)
(* RBAC-matcher server (src/server.py): the file resolver with its         *)
(* per-session suggestion memory, the two agent tools built on it, and     *)
(* the construction of the reporting graph from a table.                   *)
(*                                                                         *)
(* Strings are sequences of one-character strings, so that lower-casing,   *)
(* suffix tests and the similarity score are computed, not assumed.        *)
(***************************************************************************)
EXTENDS Integers, Sequences, FiniteSets, TLC

VARIABLES
    SUGGESTION_MEMORY,  \* server.py:57, session id -> suggested path
    dataDir,            \* the entries of /data, or Missing when /data is absent
    prompted,           \* history: session id -> file named by its latest prompt
    last,               \* the latest tool call: arguments, resolver result, outcome
    df,                 \* the table handed to build_graph_from_df
    G,                  \* the graph build_graph_from_df returned
    diag,               \* the diagnostics reported with the graph
    chart,              \* a chart request on a parsed table: columns, filter, result
    pc                  \* position of the graph pipeline

vars == <<SUGGESTION_MEMORY, dataDir, prompted, last, df, G, diag, chart, pc>>

-----------------------------------------------------------------------------
(* Bounds *)

MaxFiles == 2           \* at most this many entries in /data
MaxRows == 2            \* at most this many rows in a table

-----------------------------------------------------------------------------
(* Strings *)

None == <<"None">>      \* Python None; no string has a multi-character element

Truthy(s) == s # None /\ s # <<>>

LowerChar(c) ==
    CASE c = "A" -> "a" [] c = "C" -> "c" [] c = "S" -> "s" [] c = "V" -> "v"
      [] c = "Y" -> "y" [] c = "E" -> "e" [] OTHER -> c

Lower(s) == [i \in DOMAIN s |-> LowerChar(s[i])]

EndsWith(s, suffix) ==
    /\ Len(s) >= Len(suffix)
    /\ SubSeq(s, Len(s) - Len(suffix) + 1, Len(s)) = suffix

Max(a, b) == IF a >= b THEN a ELSE b

Yes == <<"y", "e", "s">>

DotXlsx == <<".", "x", "l", "s", "x">>
DotCsv == <<".", "c", "s", "v">>

\* the names /data may hold
F_a_csv == <<"a", ".", "c", "s", "v">>
F_b_xlsx == <<"b", ".", "x", "l", "s", "x">>
F_a_txt == <<"a", ".", "t", "x", "t">>
F_A_CSV == <<"A", ".", "C", "S", "V">>

Universe == {F_a_csv, F_b_xlsx, F_a_txt, F_A_CSV}

\* the references a caller may send
References ==
    { None, <<>>, F_a_csv, F_a_txt,
      <<"a", "q", "c", "q", "v">>,      \* scores exactly 60 against a.csv
      <<"a", ".", "c", "s">>,           \* a close misspelling
      <<"z", "z">>,                     \* matches nothing
      <<"s">> }                         \* scores 100 against a.csv and b.xlsx

Proceeds == { None, Yes, <<"Y", "E", "S">>, <<"n", "o">> }

Sessions == {"s1", "s2"}

\* the value of dataDir when /data is absent: no directory holds this entry
Missing == {<<"ENOENT">>}

-----------------------------------------------------------------------------
(* rapidfuzz: fuzz.ratio, fuzz.partial_ratio, process.extractOne.  A score  *)
(* is the fraction 200 * lcs / (len1 + len2), kept as numerator and        *)
(* denominator so that the comparison with the threshold is exact.         *)

RECURSIVE LCS(_, _)
LCS(s, t) ==
    IF s = <<>> \/ t = <<>> THEN 0
    ELSE IF Head(s) = Head(t) THEN 1 + LCS(Tail(s), Tail(t))
    ELSE Max(LCS(Tail(s), t), LCS(s, Tail(t)))

Ratio(s, t) ==
    IF s = <<>> /\ t = <<>> THEN [n |-> 100, d |-> 1]
    ELSE [n |-> 200 * LCS(s, t), d |-> Len(s) + Len(t)]

Greater(x, y) == x.n * y.d > y.n * x.d

\* the windows of the longer string s2 that the shorter s1 is aligned with
Windows(len1, s2) ==
    LET len2 == Len(s2) IN
    {SubSeq(s2, 1, i) : i \in 1..(len1 - 1)}
        \cup {SubSeq(s2, i + 1, i + len1) : i \in 0..(len2 - len1 - 1)}
        \cup {SubSeq(s2, i + 1, len2) : i \in (len2 - len1)..(len2 - 1)}

BestOf(scores) ==
    IF scores = {} THEN [n |-> 0, d |-> 1]
    ELSE CHOOSE x \in scores : \A y \in scores : ~Greater(y, x)

PartialRatioImpl(s1, s2) == BestOf({Ratio(s1, w) : w \in Windows(Len(s1), s2)})

PartialRatio(s1, s2) ==
    IF s1 = <<>> /\ s2 = <<>> THEN [n |-> 100, d |-> 1]
    ELSE IF Len(s1) < Len(s2) THEN PartialRatioImpl(s1, s2)
    ELSE IF Len(s1) > Len(s2) THEN PartialRatioImpl(s2, s1)
    ELSE BestOf({PartialRatioImpl(s1, s2), PartialRatioImpl(s2, s1)})

\* the scores of every reference against every name, computed once
ScoreTable ==
    [r \in References \ {None} |-> [f \in Universe |-> PartialRatio(r, f)]]

Score(r, f) == ScoreTable[r][f]

\* process.extractOne: the first choice with the highest score
RECURSIVE ExtractFrom(_, _, _)
ExtractFrom(query, choices, i) ==
    \* index of the best choice among choices[i..]
    IF i = Len(choices) THEN i
    ELSE LET rest == ExtractFrom(query, choices, i + 1) IN
         IF Greater(Score(query, choices[rest]), Score(query, choices[i]))
         THEN rest ELSE i

ExtractOne(query, choices) ==
    LET k == ExtractFrom(query, choices, 1) IN
    [fname |-> choices[k], score |-> Score(query, choices[k])]

Threshold == 60

\* the comparison written >= instead of >
AtLeastThreshold(score) == score.n >= Threshold * score.d

AboveThreshold(score) == score.n > Threshold * score.d

-----------------------------------------------------------------------------
(* The file system under /data *)

data_dir == <<"/data/">>

\* os.path.join(data_dir, name)
Join(dir, name) == dir \o name

\* the exact-match test never succeeds
ExistsNever(path, dir) == FALSE

\* os.path.exists(path)
Exists(path, dir) ==
    /\ dir # Missing
    /\ Len(path) > 1
    /\ SubSeq(path, 1, 1) = data_dir
    /\ Tail(path) \in dir

\* [f for f in os.listdir(data_dir) if f.lower().endswith((".xlsx", ".csv"))]
IsChartFile(f) == EndsWith(Lower(f), DotXlsx) \/ EndsWith(Lower(f), DotCsv)

Candidates(dir) == {f \in dir : IsChartFile(f)}

\* os.listdir returns the entries in arbitrary order
Listings(S) ==
    {f \in [1..Cardinality(S) -> S] : \A i, j \in 1..Cardinality(S) : i # j => f[i] # f[j]}

-----------------------------------------------------------------------------
(* find_matching_file.  Its four kinds of return value are all strings in  *)
(* the source; the record keeps what each string is built from.            *)

Ret(kind, name, files) == [kind |-> kind, name |-> name, files |-> files]

NoRet == Ret("none", <<>>, <<>>)

HasKey(mem, s) == s \in DOMAIN mem

\* the entry is read but not removed
PopKeeps(mem, s) == mem

Pop(mem, s) == [t \in DOMAIN mem \ {s} |-> mem[t]]

\* the suggestion is stored under the default session instead of the caller's
PutDefault(mem, s, v) ==
    [t \in DOMAIN mem \cup {"s1"} |-> IF t = "s1" THEN v ELSE mem[t]]

Put(mem, s, v) == [t \in DOMAIN mem \cup {s} |-> IF t = s THEN v ELSE mem[t]]

Confirms(proceed) == Truthy(proceed) /\ Lower(proceed) = Yes

\* a confirmation that finds no suggestion gives up without looking at the reference
find_matching_file_confirm_first(file_reference, files, session_id, proceed, mem, dir) ==
    IF Confirms(proceed)
    THEN IF HasKey(mem, session_id)
         THEN [ret |-> Ret("path", mem[session_id], <<>>), mem |-> Pop(mem, session_id)]
         ELSE [ret |-> Ret("noref", <<>>, files), mem |-> mem]
    ELSE IF Truthy(file_reference) /\ Exists(Join(data_dir, file_reference), dir)
    THEN [ret |-> Ret("path", Join(data_dir, file_reference), <<>>), mem |-> mem]
    ELSE IF Truthy(file_reference) /\ files # <<>>
    THEN LET best == ExtractOne(file_reference, files) IN
         IF AboveThreshold(best.score)
         THEN [ret |-> Ret("prompt", best.fname, <<>>),
               mem |-> Put(mem, session_id, Join(data_dir, best.fname))]
         ELSE [ret |-> Ret("nomatch", file_reference, files), mem |-> mem]
    ELSE [ret |-> Ret("noref", <<>>, files), mem |-> mem]

find_matching_file(file_reference, files, session_id, proceed, mem, dir) ==
    IF Confirms(proceed) /\ HasKey(mem, session_id)
    THEN [ret |-> Ret("path", mem[session_id], <<>>), mem |-> Pop(mem, session_id)]
    ELSE IF Truthy(file_reference) /\ Exists(Join(data_dir, file_reference), dir)
    THEN [ret |-> Ret("path", Join(data_dir, file_reference), <<>>), mem |-> mem]
    ELSE IF Truthy(file_reference) /\ files # <<>>
    THEN LET best == ExtractOne(file_reference, files) IN
         IF AboveThreshold(best.score)
         THEN [ret |-> Ret("prompt", best.fname, <<>>),
               mem |-> Put(mem, session_id, Join(data_dir, best.fname))]
         ELSE [ret |-> Ret("nomatch", file_reference, files), mem |-> mem]
    ELSE [ret |-> Ret("noref", <<>>, files), mem |-> mem]

-----------------------------------------------------------------------------
(* The two agent tools.  What a call does after the file is resolved       *)
(* (parse, filter, column check, graph, render) changes no server state;   *)
(* here it is the stage at which the call ends, chosen by the file's       *)
(* content and the environment.                                            *)

ChartStages ==
    { "read_error",         \* neither read_excel nor read_csv can parse the file
      "filter_column",      \* a filter key names no column
      "filter_error",       \* the filter step raises
      "empty",              \* no row is left
      "missing_columns",    \* a required column is absent
      "graph_error",        \* build_graph_from_df raises
      "render_error",       \* save_network_html raises
      "created" }

CentersStages ==
    { "read_error", "no_column", "column_error", "no_centers", "listed" }

\* the stages that end in an exception raised inside the try block
Raising == {"read_error", "filter_error", "graph_error", "render_error", "column_error"}

Returned(text) == [kind |-> "returned", text |-> text]
Raised(exc) == [kind |-> "raised", text |-> exc]

\* the rest of a tool's body once find_matching_file has returned
ToolOutcome(ret, stage, dir) ==
    IF ret.kind # "path" \/ ~Exists(ret.name, dir)
    THEN Returned(ret.kind)
    ELSE IF stage \in Raising
    THEN Returned("Error processing file")
    ELSE Returned(stage)

Request(tool, file_reference, proceed, session_id) ==
    [phase |-> "called", tool |-> tool, reference |-> file_reference,
     proceed |-> proceed, session |-> session_id,
     before |-> SUGGESTION_MEMORY, promptedBefore |-> prompted[session_id],
     ret |-> NoRet, out |-> Returned("none")]

NoCall ==
    [phase |-> "idle", tool |-> "none", reference |-> None, proceed |-> None,
     session |-> "s1", before |-> <<>>, promptedBefore |-> None,
     ret |-> NoRet, out |-> Returned("none")]

\* a client invokes one of the two tools (the @mcp.tool entry points)
Invoke ==
    /\ last.phase = "idle"
    /\ \E tool \in {"xlsx_to_org_chart", "list_cost_centers"},
          file_reference \in References, proceed \in Proceeds, session_id \in Sessions :
            last' = Request(tool, file_reference, proceed, session_id)
    /\ UNCHANGED <<SUGGESTION_MEMORY, dataDir, prompted, df, G, diag, chart, pc>>

\* os.listdir raises before the try block when /data is absent
ListdirFails ==
    /\ dataDir = Missing
    /\ last' = [last EXCEPT !.phase = "returned", !.out = Raised("FileNotFoundError")]
    /\ UNCHANGED <<SUGGESTION_MEMORY, prompted>>

Resolve(files, stage) ==
    LET r == find_matching_file(last.reference, files, last.session, last.proceed,
                                SUGGESTION_MEMORY, dataDir) IN
    /\ SUGGESTION_MEMORY' = r.mem
    /\ prompted' = IF r.ret.kind = "prompt"
                   THEN [prompted EXCEPT ![last.session] = r.ret.name]
                   ELSE prompted
    /\ last' = [last EXCEPT !.phase = "returned", !.ret = r.ret,
                            !.out = ToolOutcome(r.ret, stage, dataDir)]

\* the stages a call can end in: only a resolved call reads the file
StagesOf(stages, files) ==
    LET r == find_matching_file(last.reference, files, last.session, last.proceed,
                                SUGGESTION_MEMORY, dataDir) IN
    IF r.ret.kind = "path" /\ Exists(r.ret.name, dataDir) THEN stages ELSE {"unread"}

xlsx_to_org_chart ==
    /\ last.phase = "called"
    /\ last.tool = "xlsx_to_org_chart"
    /\ \/ ListdirFails
       \/ /\ dataDir # Missing
          /\ \E files \in Listings(Candidates(dataDir)) :
                \E stage \in StagesOf(ChartStages, files) : Resolve(files, stage)
    /\ UNCHANGED <<dataDir, df, G, diag, chart, pc>>

list_cost_centers ==
    /\ last.phase = "called"
    /\ last.tool = "list_cost_centers"
    /\ \/ ListdirFails
       \/ /\ dataDir # Missing
          /\ \E files \in Listings(Candidates(dataDir)) :
                \E stage \in StagesOf(CentersStages, files) : Resolve(files, stage)
    /\ UNCHANGED <<dataDir, df, G, diag, chart, pc>>

\* the result has been delivered and the server waits for the next call
Respond ==
    /\ last.phase = "returned"
    /\ last' = NoCall
    /\ UNCHANGED <<SUGGESTION_MEMORY, dataDir, prompted, df, G, diag, chart, pc>>

NoTable == <<>>

\* no chart request is in progress
NoChart ==
    [columns |-> <<>>, filter |-> <<>>, rows |-> <<>>,
     associate_id_col |-> "", manager_id_col |-> "",
     out |-> [kind |-> "none", key |-> "", missing |-> {}]]

InitServer ==
    /\ SUGGESTION_MEMORY = <<>>
    /\ dataDir \in {d \in SUBSET Universe : Cardinality(d) <= MaxFiles} \cup {Missing}
    /\ prompted = [s \in Sessions |-> None]
    /\ last = NoCall

Init ==
    /\ InitServer
    /\ df = NoTable
    /\ G = [nodes |-> <<>>, edges |-> <<>>]
    /\ diag = [cycle |-> {}, dangling |-> {}]
    /\ chart = NoChart
    /\ pc = "idle"

Next == Invoke \/ xlsx_to_org_chart \/ list_cost_centers \/ Respond

Spec == Init /\ [][Next]_vars

-----------------------------------------------------------------------------
(* Tables and build_graph_from_df.  A row maps column names to values; a   *)
(* graph is what networkx.DiGraph keeps: a dict of nodes with their        *)
(* attribute dicts and a dict of edges (source, target) with theirs.       *)

NaN == "<NaN>"          \* the missing value of pandas

IdColumn == "Associate ID"
ManagerColumn == "Reports To Manager ID"
TitleColumn == "Job Title"

Columns == {IdColumn, ManagerColumn, TitleColumn}

IdValues == {"A", "B"}
ManagerValues == {"A", "B", "Z", "", NaN}
TitleValues == {"Manager", "Clerk"}

MakeRow(id, manager, title) ==
    (IdColumn :> id) @@ (ManagerColumn :> manager) @@ (TitleColumn :> title)

Rows == {MakeRow(i, m, t) : i \in IdValues, m \in ManagerValues, t \in TitleValues}

\* the tables a parsed file may hold
Tables == UNION {[1..n -> Rows] : n \in 0..MaxRows}

EmptyDict == <<>>

\* dict.update: the keys of new override those of old
Update(old, new) ==
    [k \in DOMAIN old \cup DOMAIN new |-> IF k \in DOMAIN new THEN new[k] ELSE old[k]]

\* pd.notna
NotNa(v) == v # NaN

\* DiGraph.add_node(n, **attr)
add_node(g, n, attr) ==
    [g EXCEPT !.nodes =
        [m \in DOMAIN g.nodes \cup {n} |->
            IF m = n
            THEN Update(IF n \in DOMAIN g.nodes THEN g.nodes[n] ELSE EmptyDict, attr)
            ELSE g.nodes[m]]]

\* DiGraph.add_edge(u, v, **attr): both ends become nodes if they are not yet
add_edge(g, u, v, attr) ==
    [nodes |-> [m \in DOMAIN g.nodes \cup {u, v} |->
                    IF m \in DOMAIN g.nodes THEN g.nodes[m] ELSE EmptyDict],
     edges |-> [e \in DOMAIN g.edges \cup {<<u, v>>} |->
                    IF e = <<u, v>>
                    THEN Update(IF e \in DOMAIN g.edges THEN g.edges[e] ELSE EmptyDict,
                                attr)
                    ELSE g.edges[e]]]

\* the empty-string test is left out
HasManagerNotNa(node_id, manager_id) == NotNa(manager_id) /\ manager_id # node_id

\* pd.notna(manager_id) and manager_id != "" and manager_id != node_id
HasManager(node_id, manager_id) ==
    NotNa(manager_id) /\ manager_id # "" /\ manager_id # node_id

\* the edge is added from the manager to the report
ReportsToReversed(g, node_id, manager_id) ==
    add_edge(g, manager_id, node_id, [relation |-> "reports_to"])

\* G.add_edge(node_id, manager_id, relation="reports_to")
ReportsTo(g, node_id, manager_id) ==
    add_edge(g, node_id, manager_id, [relation |-> "reports_to"])

\* one iteration of the loop over df.iterrows()
AddRow(g, row, associate_id_col, manager_id_col) ==
    LET node_id == row[associate_id_col]
        manager_id == row[manager_id_col]
        attributes == Update(row, [k \in {"reports to manager id"} |-> manager_id])
        g1 == add_node(g, node_id, attributes)
    IN  IF HasManager(node_id, manager_id) THEN ReportsTo(g1, node_id, manager_id)
        ELSE g1

NoGraph == [nodes |-> EmptyDict, edges |-> EmptyDict]

RECURSIVE BuildFrom(_, _, _, _, _)
BuildFrom(g, rows, i, associate_id_col, manager_id_col) ==
    IF i > Len(rows) THEN g
    ELSE BuildFrom(AddRow(g, rows[i], associate_id_col, manager_id_col), rows, i + 1,
                   associate_id_col, manager_id_col)

build_graph_from_df(rows, associate_id_col, manager_id_col) ==
    BuildFrom(NoGraph, rows, 1, associate_id_col, manager_id_col)

\* what a call reports besides the graph: build_graph_from_df returns G alone
\* and neither it nor its caller logs or returns a diagnostic
NoDiagnostics == [cycle |-> {}, dangling |-> {}]

\* xlsx_to_org_chart, lines 224-227, on a parsed and filtered table
BuildGraph ==
    /\ pc = "loaded"
    /\ G' = build_graph_from_df(df, IdColumn, ManagerColumn)
    /\ diag' = NoDiagnostics
    /\ pc' = "built"
    /\ UNCHANGED <<SUGGESTION_MEMORY, dataDir, prompted, last, df, chart>>

-----------------------------------------------------------------------------
(* xlsx_to_org_chart on a parsed table: the filter, the required columns   *)
(* and the chart.  Headers, filter keys and cell values are whole strings; *)
(* str.lower and str.strip are given by their values on the strings used.  *)

MaxFilters == 2         \* at most this many comma-separated filter fragments

\* str.lower
StrLower(s) ==
    CASE s = "Associate ID" -> "associate id"
      [] s = "ASSOCIATE ID" -> "associate id"
      [] s = " ASSOCIATE ID " -> " associate id "
      [] s = "Reports To Manager ID" -> "reports to manager id"
      [] s = "REPORTS TO MANAGER ID" -> "reports to manager id"
      [] s = "Job Title" -> "job title"
      [] s = " Job Title " -> " job title "
      [] s = "Dept" -> "dept"
      [] s = "Team" -> "team"
      [] s = "Manager" -> "manager"
      [] s = " Manager " -> " manager "
      [] s = "Clerk" -> "clerk"
      [] s = "A" -> "a"
      [] s = "B" -> "b"
      [] OTHER -> s

\* str.strip
StrStrip(s) ==
    CASE s = " ASSOCIATE ID " -> "ASSOCIATE ID"
      [] s = " associate id " -> "associate id"
      [] s = " Job Title " -> "Job Title"
      [] s = " job title " -> "job title"
      [] s = " Manager " -> "Manager"
      [] s = " manager " -> "manager"
      [] OTHER -> s

\* astype(str): the missing value prints as nan
Str(v) == IF v = NaN THEN "nan" ELSE v

\* the headers a parsed file may have
ColumnSets ==
    { <<"Associate ID", "Reports To Manager ID", "Job Title">>,
      <<"associate id", "REPORTS TO MANAGER ID", "Job Title">>,
      <<" ASSOCIATE ID ", "Reports To Manager ID", " Job Title ">>,
      <<"Associate ID", "Job Title">> }

\* the values a cell under header h may hold
CellValues(h) ==
    IF StrStrip(StrLower(h)) = "associate id" THEN IdValues
    ELSE IF StrStrip(StrLower(h)) = "reports to manager id" THEN {"A"}
    ELSE TitleValues

RowsOf(columns) ==
    LET heads == {columns[i] : i \in DOMAIN columns} IN
    {r \in [heads -> IdValues \cup TitleValues] : \A h \in heads : r[h] \in CellValues(h)}

TablesOf(columns) == UNION {[1..n -> RowsOf(columns)] : n \in 0..MaxRows}

\* one comma-separated fragment of the filter: key=value, or a fragment with no "="
Pair(key, value) == [eq |-> TRUE, key |-> key, value |-> value]
Malformed == [eq |-> FALSE, key |-> "", value |-> ""]

Fragments ==
    { Pair(" Job Title ", " Manager "), Pair("job title", "clerk"),
      Pair("ASSOCIATE ID", "a"), Pair("Dept", "x"), Pair("Team", "y"), Malformed }

\* the filter argument after filter.split(","); the empty sequence is no filter
Filters == UNION {[1..n -> Fragments] : n \in 0..MaxFilters}

IsPair(f) == f.eq

\* {key(c): c for c in df.columns}, keys[i] being the key of columns[i]: of two
\* headers with one key the later stays
ColumnDict(columns, keys) ==
    [k \in {keys[i] : i \in DOMAIN columns} |->
        columns[CHOOSE i \in DOMAIN columns :
                    /\ keys[i] = k
                    /\ \A j \in DOMAIN columns : j > i => keys[j] # k]]

\* c.lower().strip(), line 202
FilterNorm(c) == StrStrip(StrLower(c))

\* c.lower(), line 217
RequiredNorm(c) == StrLower(c)

\* the comparison made without lower-casing
KeepRowsCaseSensitive(rows, colname, value) ==
    LET Test(r) == Str(r[colname]) = value IN SelectSeq(rows, Test)

\* df[df[colname].astype(str).str.lower().eq(value.lower())]
KeepRows(rows, colname, value) ==
    LET Test(r) == StrLower(Str(r[colname])) = StrLower(value) IN SelectSeq(rows, Test)

\* the loop over the filters, from the i-th on: the rows left, or the key that
\* names no column
RECURSIVE ApplyFilters(_, _, _, _)
ApplyFilters(rows, filters, i, normalized_cols) ==
    IF i > Len(filters) THEN [found |-> TRUE, rows |-> rows, key |-> ""]
    ELSE LET key == StrLower(StrStrip(filters[i].key))
             value == StrStrip(filters[i].value)
         IN  IF key \in DOMAIN normalized_cols /\ normalized_cols[key] # ""
             THEN ApplyFilters(KeepRows(rows, normalized_cols[key], value), filters,
                               i + 1, normalized_cols)
             ELSE [found |-> FALSE, rows |-> rows, key |-> key]

Out(kind, key, missing) == [kind |-> kind, key |-> key, missing |-> missing]

\* lines 201-216: the filter, then the test for an empty table
ApplyFilter ==
    /\ pc = "parsed"
    /\ LET r == IF chart.filter # <<>>
                THEN ApplyFilters(df, SelectSeq(chart.filter, IsPair), 1,
                                  ColumnDict(chart.columns,
                                             [i \in DOMAIN chart.columns |->
                                                 FilterNorm(chart.columns[i])]))
                ELSE [found |-> TRUE, rows |-> df, key |-> ""]
       IN  /\ df' = r.rows
           /\ IF ~r.found
              THEN /\ chart' = [chart EXCEPT !.out = Out("filter_column", r.key, {})]
                   /\ pc' = "done"
              ELSE IF r.rows = <<>>
              THEN /\ chart' = [chart EXCEPT !.out = Out("empty", "", {})]
                   /\ pc' = "done"
              ELSE /\ chart' = chart
                   /\ pc' = "filtered"
    /\ UNCHANGED <<SUGGESTION_MEMORY, dataDir, prompted, last, G, diag>>

required_cols == {"associate id", "reports to manager id"}

\* lines 217-223: the required columns
ResolveColumns ==
    /\ pc = "filtered"
    /\ LET normalized_cols == ColumnDict(chart.columns,
                                         [i \in DOMAIN chart.columns |->
                                             RequiredNorm(chart.columns[i])])
           missing == required_cols \ DOMAIN normalized_cols
       IN  IF missing # {}
           THEN /\ chart' = [chart EXCEPT !.out = Out("missing_columns", "", missing)]
                /\ pc' = "done"
           ELSE /\ chart' = [chart EXCEPT
                                !.associate_id_col = normalized_cols["associate id"],
                                !.manager_id_col = normalized_cols["reports to manager id"]]
                /\ pc' = "resolved"
    /\ UNCHANGED <<SUGGESTION_MEMORY, dataDir, prompted, last, df, G, diag>>

\* lines 224-227: the graph and the chart
BuildChart ==
    /\ pc = "resolved"
    /\ G' = build_graph_from_df(df, chart.associate_id_col, chart.manager_id_col)
    /\ diag' = NoDiagnostics
    /\ chart' = [chart EXCEPT !.out = Out("created", "", {})]
    /\ pc' = "done"
    /\ UNCHANGED <<SUGGESTION_MEMORY, dataDir, prompted, last, df>>

-----------------------------------------------------------------------------
(* Properties of the file resolver and the tools.  They read the record of *)
(* the latest call: its arguments, the memory before it, what              *)
(* find_matching_file returned and what the tool gave back.                *)

Range(f) == {f[i] : i \in DOMAIN f}

\* the latest call has returned and find_matching_file ran in it
Resolved == last.phase = "returned" /\ last.ret.kind # "none"

SaidYes == last.proceed \in {<<"y", "e", "s">>, <<"Y", "E", "S">>}

WasCached == last.session \in DOMAIN last.before

NotFound == last.ret.kind \in {"nomatch", "noref"}

\* every entry of the memory except that of session s is as before the call
OthersKept(s) ==
    \A t \in Sessions \ {s} :
        /\ t \in DOMAIN SUGGESTION_MEMORY <=> t \in DOMAIN last.before
        /\ t \in DOMAIN last.before => SUGGESTION_MEMORY[t] = last.before[t]

\* the reference names an entry of /data
RefExists == Truthy(last.reference) /\ last.reference \in dataDir

\* the reference is the name of a candidate file
RefIsCandidate == Truthy(last.reference) /\ last.reference \in Candidates(dataDir)

\* some candidate scores strictly more than 60 against the reference
SomeAbove ==
    /\ last.reference # None
    /\ \E f \in Candidates(dataDir) :
          Score(last.reference, f).n > 60 * Score(last.reference, f).d

\* no candidate scores more than 60 against the reference
AllAtMost ==
    /\ last.reference # None
    /\ \A f \in Candidates(dataDir) :
          Score(last.reference, f).n <= 60 * Score(last.reference, f).d

\* C1: a confirmation ("yes" in any case) for a session with a cached
\* suggestion returns the cached path, which is the path of the file named by
\* the latest prompt given to that session, and removes that entry and no other.
C1_ConfirmConsumes ==
    (Resolved /\ SaidYes /\ WasCached) =>
        /\ last.ret.kind = "path"
        /\ last.ret.name = last.before[last.session]
        /\ last.ret.name = Join(data_dir, last.promptedBefore)
        /\ last.session \notin DOMAIN SUGGESTION_MEMORY
        /\ OthersKept(last.session)

C1_Witness ==
    /\ Resolved /\ WasCached
    /\ last.proceed = <<"Y", "E", "S">>
    /\ last.ret.kind = "path"
    /\ last.reference = <<"z", "z">>
    /\ last.session \notin DOMAIN SUGGESTION_MEMORY
    /\ DOMAIN SUGGESTION_MEMORY # {}

\* C2 as stated: a confirmation for a session with no cached suggestion
\* yields NotFound.
C2_ConfirmMissIsNotFound ==
    (Resolved /\ SaidYes /\ ~WasCached) => NotFound

\* C2 as amended: a confirmation for a session with no cached suggestion does
\* not crash and is handled as a call without confirmation: NotFound when the
\* reference is empty, when there is no candidate, or when the reference names
\* no existing file and scores at most 60; else the path of the existing file
\* the reference names, or a new prompt.
C2_ConfirmMissFallsThrough ==
    (last.phase = "returned" /\ dataDir # Missing /\ SaidYes /\ ~WasCached) =>
        /\ last.out.kind = "returned"
        /\ last.ret.kind =
              IF RefExists THEN "path"
              ELSE IF Truthy(last.reference) /\ Candidates(dataDir) # {}
              THEN (IF SomeAbove THEN "prompt" ELSE "nomatch")
              ELSE "noref"
        /\ last.ret.kind = "path" => last.ret.name = Join(data_dir, last.reference)

C2_Witness ==
    /\ Resolved /\ SaidYes /\ ~WasCached
    /\ last.promptedBefore # None
    /\ last.ret.kind = "nomatch"

\* C3 as stated: a reference that is the name of a candidate resolves to that
\* file's path and leaves the memory alone, whatever confirm and the memory are.
C3_ExactAlways ==
    (Resolved /\ RefIsCandidate) =>
        /\ last.ret.kind = "path"
        /\ last.ret.name = Join(data_dir, last.reference)
        /\ SUGGESTION_MEMORY = last.before

\* C3 as amended: a reference that is the name of a candidate resolves to that
\* file's path and leaves the memory alone, unless confirm is "yes" and a
\* suggestion is cached for the session (then step 1 answers).
C3_ExactUnlessConfirmed ==
    (Resolved /\ RefIsCandidate /\ ~(SaidYes /\ WasCached)) =>
        /\ last.ret.kind = "path"
        /\ last.ret.name = Join(data_dir, last.reference)
        /\ SUGGESTION_MEMORY = last.before

C3_Witness ==
    /\ Resolved /\ RefIsCandidate /\ SaidYes /\ ~WasCached
    /\ last.before # <<>>
    /\ last.ret.kind = "path"
    /\ last.ret.name = Join(data_dir, last.reference)

\* C4 as stated: a reference whose best score is at most 60 gets NotFound
\* listing the candidates, no prompt and no cached suggestion; a prompt needs
\* a score above 60.
C4_LowScoreIsNotFound ==
    /\ (Resolved /\ AllAtMost /\ Candidates(dataDir) # {}) =>
          /\ NotFound
          /\ Range(last.ret.files) = Candidates(dataDir)
          /\ SUGGESTION_MEMORY = last.before
    /\ (Resolved /\ last.ret.kind = "prompt") => SomeAbove

\* C4 as amended: a reference whose best score is at most 60 never gets a
\* prompt and never gets a suggestion cached; it gets NotFound listing the
\* candidates unless step 1 (confirm "yes" with a cached suggestion) or step 2
\* (the reference names an existing file) answers first.  A prompt is returned
\* and a suggestion cached only when the best score is above 60.
C4_LowScoreNeverPrompts ==
    /\ (Resolved /\ AllAtMost) =>
          /\ last.ret.kind # "prompt"
          /\ \/ SUGGESTION_MEMORY = last.before
             \/ SaidYes /\ WasCached /\ last.session \notin DOMAIN SUGGESTION_MEMORY
          /\ ~(SaidYes /\ WasCached) /\ ~RefExists =>
                /\ NotFound
                /\ Range(last.ret.files) = Candidates(dataDir)
                /\ Len(last.ret.files) = Cardinality(Candidates(dataDir))
    /\ (Resolved /\ last.ret.kind = "prompt") =>
          /\ SomeAbove
          /\ Score(last.reference, last.ret.name).n
                > 60 * Score(last.reference, last.ret.name).d
          /\ SUGGESTION_MEMORY[last.session] = Join(data_dir, last.ret.name)

C4_Witness ==
    /\ Resolved
    /\ last.reference = <<"a", "q", "c", "q", "v">>
    /\ F_a_csv \in dataDir
    /\ last.ret.kind = "nomatch"
    /\ last.before # <<>>

\* C5: a call for session s changes the memory only by removing s's entry on
\* a confirmation or by writing s's entry with a suggestion scoring above 60;
\* an exact match and a NotFound result leave the whole memory unchanged, and
\* the entries of the other sessions are never touched.
C5_MemoryFrame ==
    last.phase = "returned" =>
        /\ OthersKept(last.session)
        /\ SUGGESTION_MEMORY # last.before =>
              \/ /\ SaidYes /\ WasCached
                 /\ last.session \notin DOMAIN SUGGESTION_MEMORY
              \/ /\ last.ret.kind = "prompt" /\ SomeAbove
                 /\ last.session \in DOMAIN SUGGESTION_MEMORY
                 /\ SUGGESTION_MEMORY[last.session] = Join(data_dir, last.ret.name)
        /\ (NotFound \/ last.ret.kind = "none") => SUGGESTION_MEMORY = last.before
        /\ (last.ret.kind = "path" /\ ~(SaidYes /\ WasCached)) =>
              SUGGESTION_MEMORY = last.before

C5_Witness ==
    /\ Resolved
    /\ last.session = "s2"
    /\ last.ret.kind = "prompt"
    /\ "s1" \in DOMAIN last.before
    /\ SUGGESTION_MEMORY["s1"] # SUGGESTION_MEMORY["s2"]

\* C6: both tools always return a string; no failure inside a call reaches
\* the caller as a raised exception.
C6_AlwaysString ==
    last.phase = "returned" => last.out.kind = "returned"

-----------------------------------------------------------------------------
(* The graph construction on every table within the bounds *)

InitGraph ==
    /\ SUGGESTION_MEMORY = <<>>
    /\ dataDir = {F_a_csv}
    /\ prompted = [s \in Sessions |-> None]
    /\ last = NoCall
    /\ df \in Tables
    /\ G = NoGraph
    /\ diag = NoDiagnostics
    /\ chart = NoChart
    /\ pc = "loaded"

NextGraph == BuildGraph

SpecGraph == InitGraph /\ [][NextGraph]_vars

Present(v) == v # NaN /\ v # ""

Edges == DOMAIN G.edges

\* the (identifier, manager) pairs of the rows that name a manager other than
\* themselves
Reporting ==
    {<<df[i][IdColumn], df[i][ManagerColumn]>> : i \in
        {j \in DOMAIN df : /\ Present(df[j][ManagerColumn])
                           /\ df[j][ManagerColumn] # df[j][IdColumn]}}

\* C7: the built graph has no edge from a node to itself and no edge that
\* comes from a row whose manager is null or the empty string.
C7_NoSelfLoopNoEmptyManager ==
    pc = "built" =>
        \A e \in Edges :
            /\ e[1] # e[2]
            /\ Present(e[1]) /\ Present(e[2])
            /\ \E i \in DOMAIN df :
                  /\ Present(df[i][ManagerColumn])
                  /\ {df[i][IdColumn], df[i][ManagerColumn]} = {e[1], e[2]}

C7_Witness ==
    /\ pc = "built"
    /\ Len(df) = 2
    /\ df[1][ManagerColumn] = df[1][IdColumn]
    /\ df[2][ManagerColumn] = ""
    /\ Edges = {}

\* C8 as stated: every row with a manager other than itself gives one edge
\* from the manager to the row's identifier, labeled "reports_to".
C8_EdgeManagerToReport ==
    pc = "built" =>
        /\ Edges = {<<p[2], p[1]>> : p \in Reporting}
        /\ \A e \in Edges : G.edges[e] = [relation |-> "reports_to"]

\* C8 as amended: every row with a manager other than itself gives one edge
\* from the row's identifier to the manager, with relation "reports_to";
\* repeated rows with the same pair add no second edge, and no other edge exists.
C8_EdgeReportToManager ==
    pc = "built" =>
        /\ Edges = Reporting
        /\ \A e \in Edges : G.edges[e] = [relation |-> "reports_to"]
        /\ Cardinality(Edges) = Cardinality(Reporting)

C8_Witness ==
    /\ pc = "built"
    /\ Len(df) = 2
    /\ df[1][IdColumn] = "A" /\ df[1][ManagerColumn] = "B"
    /\ df[2][IdColumn] = "A" /\ df[2][ManagerColumn] = "B"
    /\ Edges = {<<"A", "B">>}

\* the nodes reachable from n along one or more edges
RECURSIVE ReachFrom(_, _)
ReachFrom(front, seen) ==
    LET next == {e[2] : e \in {x \in Edges : x[1] \in front}} \ seen IN
    IF next = {} THEN seen ELSE ReachFrom(next, seen \cup next)

Reach(n) == ReachFrom({n}, {})

\* the edges of the graph that lie on a directed cycle
CycleEdges == {e \in Edges : e[1] \in Reach(e[2])}

\* the rows hold a reporting cycle: one row's manager is a second row, whose
\* manager is the first
RowsHoldCycle ==
    \E i, j \in DOMAIN df :
        /\ df[i][IdColumn] # df[j][IdColumn]
        /\ df[i][ManagerColumn] = df[j][IdColumn]
        /\ df[j][ManagerColumn] = df[i][IdColumn]

\* C9: when the rows hold a reporting cycle, the build succeeds, a cycle
\* warning lists the edges of the cycle, and the graph keeps all of them.
C9_CycleReported ==
    (pc = "built" /\ RowsHoldCycle) =>
        /\ CycleEdges # {}
        /\ CycleEdges \subseteq Edges
        /\ diag.cycle # {}
        /\ diag.cycle \subseteq CycleEdges

\* the manager values that are present and are no row's identifier
Dangling ==
    {df[i][ManagerColumn] : i \in DOMAIN df}
        \ ({df[i][IdColumn] : i \in DOMAIN df} \cup {NaN, ""})

\* C10: the build succeeds and reports exactly the manager identifiers that
\* are present and match no row's identifier as dangling references.
C10_DanglingReported ==
    pc = "built" => diag.dangling = Dangling

-----------------------------------------------------------------------------
(* The chart pipeline on every table, header set and filter within the bounds *)

InitChart ==
    /\ SUGGESTION_MEMORY = <<>>
    /\ dataDir = {F_a_csv}
    /\ prompted = [s \in Sessions |-> None]
    /\ last = NoCall
    /\ \E columns \in ColumnSets :
          /\ df \in TablesOf(columns)
          /\ \E filter \in Filters :
                chart = [NoChart EXCEPT !.columns = columns, !.filter = filter,
                                        !.rows = df]
    /\ G = NoGraph
    /\ diag = NoDiagnostics
    /\ pc = "parsed"

NextChart == ApplyFilter \/ ResolveColumns \/ BuildChart

SpecChart == InitChart /\ [][NextChart]_vars

\* the key=value fragments of the filter, in order
FilterPairs == SelectSeq(chart.filter, IsPair)

\* the key of a pair as the lookup sees it: trimmed and lower-cased
KeyOf(p) == StrLower(StrStrip(p.key))

\* the headers whose lower-cased, trimmed name is the key
ColumnsOf(key) ==
    {chart.columns[i] : i \in {j \in DOMAIN chart.columns :
                                  StrStrip(StrLower(chart.columns[j])) = key}}

Resolvable(p) == ColumnsOf(KeyOf(p)) # {}

\* the row's value under the pair's column, as a string, equals the pair's
\* value up to case
Matches(r, p) ==
    \E c \in ColumnsOf(KeyOf(p)) : StrLower(Str(r[c])) = StrLower(StrStrip(p.value))

MatchesAll(r) == \A i \in DOMAIN FilterPairs : Matches(r, FilterPairs[i])

\* the position of the first pair whose key names no column
FirstUnresolvable ==
    CHOOSE i \in DOMAIN FilterPairs :
        /\ ~Resolvable(FilterPairs[i])
        /\ \A j \in 1..(i - 1) : Resolvable(FilterPairs[j])

\* C11: once the filter has run, if every key names a column the table is
\* exactly the rows of the parsed table that match every pair up to case, in
\* their order; otherwise the call ends with the schema error that names the
\* first key, from the left, that names no column, and nothing is built.
C11_FilterConjunction ==
    pc # "parsed" =>
        IF \A i \in DOMAIN FilterPairs : Resolvable(FilterPairs[i])
        THEN /\ chart.out.kind # "filter_column"
             /\ df = SelectSeq(chart.rows, MatchesAll)
        ELSE /\ pc = "done"
             /\ chart.out.kind = "filter_column"
             /\ chart.out.key = KeyOf(FilterPairs[FirstUnresolvable])
             /\ G = NoGraph

C11_Witness ==
    /\ pc = "done"
    /\ chart.out.kind = "created"
    /\ chart.filter = <<Pair(" Job Title ", " Manager "), Pair("ASSOCIATE ID", "a")>>
    /\ Len(chart.rows) = 2
    /\ Len(df) = 1
    /\ chart.rows[1][chart.associate_id_col] = "B"

\* every required name is the lower-cased, trimmed form of some header
HeadersSatisfyRequired == \A q \in required_cols : ColumnsOf(q) # {}

\* C12: a table whose headers are case variants of the required names, with
\* or without surrounding spaces, passes the required-column check: no
\* required column is reported missing.
C12_HeadersCaseAndSpace ==
    (pc = "done" /\ HeadersSatisfyRequired) =>
        /\ chart.out.kind # "missing_columns"
        /\ chart.out.missing = {}

\* the identifiers of the table's rows
RowIds == {df[i][IdColumn] : i \in DOMAIN df}

\* C13: the nodes of the built graph are exactly the identifiers of the rows,
\* each with every column of its row and the manager-reference attribute; a
\* manager identifier that is no row's identifier is not a node.
C13_NodesAreRows ==
    pc = "built" =>
        /\ DOMAIN G.nodes = RowIds
        /\ \A n \in RowIds :
              \E i \in DOMAIN df :
                  /\ df[i][IdColumn] = n
                  /\ \A c \in Columns : G.nodes[n][c] = df[i][c]
                  /\ G.nodes[n]["reports to manager id"] = df[i][ManagerColumn]

====
